---- MODULE Spec2Model ----
(***************************************************************************)
(* Playback / loop orchestration of audio-replayer.                        *)
(*                                                                         *)
(* App (src/unnamed/part_000) owns the playlist, the current track index,  *)
(* the recency history and the configuration.  Player                      *)
(* (src/src/components/Player.tsx) owns the per-track session (React       *)
(* state), the refs its long-lived WaveSurfer handlers read (stateRef,     *)
(* isHandlingFinishRef, lastRegionOutTimeRef) and drives the audio         *)
(* element.                                                                *)
(*                                                                         *)
(* Scheduling.  Every handler runs to completion.  A state update made by  *)
(* a WaveSurfer event, a timer or a promise continuation is rendered by a  *)
(* later task (action Commit), so the refs that the effects maintain lag   *)
(* behind the state until that task runs.  An update made by a click is    *)
(* rendered, and its effects are run, before any other task.  A microtask  *)
(* runs before any other task.  Speeds are in tenths (10 is 1.0x), times   *)
(* in milliseconds, indices are 0-based as in the source.                  *)
(***************************************************************************)
EXTENDS Integers, Sequences, FiniteSets, TLC

VARIABLES
    \* App state
    playlist, currentTrackIndex, isShuffleOn, recentHistory, loopCount,
    currentPlaylistId, appIsPlaying, sleepTimerDuration, sortOrder,
    \* persistence collaborator and the outstanding loadTracks request
    db, loadPending,
    \* Player state
    currentLoop, isLoopLocked, regionLoop, activeRegion, isPlaying,
    \* Player refs and closure variables
    stateRef, isHandlingFinishRef, lastRegionOutTimeRef,
    wasPlayingBeforeRegion, rendered,
    \* audio element, WaveSurfer and its regions plugin
    paused, playPending, conts, playbackRate, audioSrc, readyPending, regions,
    \* event loop: queued microtask, armed timers, clock
    microtask, timers, now,
    \* environment: a finish that may still be delivered again, a drag under
    \* way, the time of the latest region-out of the region the plugin holds
    dup, dragging, lastSignal,
    \* loadTracks requests still outstanding whose effect has been cleaned up
    staleLoads,
    \* the object URLs of the tracks: for each track the URL created last and
    \* how many times it has been revoked
    urls,
    \* App's list of playlists, the deletePlaylist calls that have not resolved
    \* yet, and the createPlaylist calls made, resolved or not
    playlists, pendingDeletes, creates,
    \* the addFilesToPlaylist batches whose storage writes have not resolved yet
    pendingAdds,
    \* commands and signals issued, and early returns taken, by the latest step
    out

vars == << playlist, currentTrackIndex, isShuffleOn, recentHistory, loopCount,
           currentPlaylistId, appIsPlaying, sleepTimerDuration, sortOrder,
           db, loadPending,
           currentLoop, isLoopLocked, regionLoop, activeRegion, isPlaying,
           stateRef, isHandlingFinishRef, lastRegionOutTimeRef,
           wasPlayingBeforeRegion, rendered,
           paused, playPending, conts, playbackRate, audioSrc, readyPending,
           regions, microtask, timers, now, dup, dragging, lastSignal,
           staleLoads,
           urls,
           playlists,
           pendingDeletes,
           creates,
           pendingAdds, out >>

----------------------------------------------------------------------------
\* Bounds of the model

NumTracks == 2          \* tracks stored in playlist 1 (playlist 2 stores one)
MaxRegions == 2         \* region ids the plugin hands out
MaxTicks == 3           \* clock ticks before the clock stops
MaxRegionLoop == 2      \* regionLoop is unbounded in the code; counted up to here
MaxNewIds == 1          \* how far below its cap a history given at start may be
NumShuffleTracks == 3   \* tracks of the playlist the weighted draw is studied on
MaxPicks == 1           \* nexts in a row in the study of the weighted draw
MaxSleepSeconds == 2    \* longest sleep timer started
MaxReleases == 2        \* revocations of one object URL that are counted
MaxNewPlaylists == 1    \* playlists the user creates
MaxAddedTracks == 1     \* files the user adds

\* Program constants
DebounceMs == 100
HistoryCap == 50
HighPriority == 3
DefaultRate == 10
DefaultPriority == 2
MaxLoopCount == 3
DefaultLoopCount == 2
playbackSpeeds == << 10, 11, 12 >>

TickMs == 2 * 20
StartNow == 10 * DebounceMs      \* Date.now() is far from 0, the initial ref value
MaxNow == StartNow + MaxTicks * TickMs
DrawScale == 1 + 1               \* Math.random() draws are modelled in halves

None == 0              \* null / undefined
StaleSrc == 0 - 1      \* an object URL that no track of the playlist has any more
PlaylistIds == 1 .. 2
\* the ids createPlaylist gives to new playlists
NewPlaylistIds ==
    (Cardinality(PlaylistIds) + 1) .. (Cardinality(PlaylistIds) + MaxNewPlaylists)
AllPlaylistIds == PlaylistIds \cup NewPlaylistIds
\* getPlaylists() at start: the stored playlists
InitialPlaylists == [i \in PlaylistIds |-> i]
RegionIds == 1 .. MaxRegions
NoTask == [nextSpeed |-> 0]   \* no microtask queued
\* no finish left to be delivered again; otherwise dup holds the track whose
\* pass ended, whether its first delivery incremented currentLoop and whether
\* it signalled track-end
NoDup == [track |-> None, counted |-> FALSE, ended |-> FALSE]

\* the plugin has emitted no region-out for the region it holds
NoSignal == 0

Min(a, b) == IF a <= b THEN a ELSE b

Track(i) == [id |-> i, priority |-> DefaultPriority]

\* the tracks the persistence collaborator holds at start
InitialDb ==
    [p \in AllPlaylistIds |->
        IF p = 1 THEN [i \in 1 .. NumTracks |-> Track(i)]
        ELSE IF p \in PlaylistIds THEN << Track(NumTracks + 1) >>
        ELSE << >>]

----------------------------------------------------------------------------
\* Array helpers (0-based results, as the JavaScript they model)

\* playlists.findIndex(p => p.id === id), -1 when there is none
indexOf(q, id) ==
    IF \E i \in DOMAIN q : q[i] = id
    THEN (CHOOSE i \in DOMAIN q : q[i] = id /\ \A j \in 1 .. i - 1 : q[j] # id) - 1
    ELSE 0 - 1

\* the elements of a list
SeqRange(q) == {q[i] : i \in DOMAIN q}

\* the ids of the tracks of a list
IdsOf(pl) == {pl[i].id : i \in DOMAIN pl}

\* URL.createObjectURL for the tracks ids: each gets a new URL, which takes
\* the place of the one the track had
createObjectURLs(w, ids) ==
    [w EXCEPT !.urls = {u \in @ : u.id \notin ids}
                           \cup {[id |-> i, revoked |-> 0] : i \in ids}]

\* URL.revokeObjectURL for the URLs the tracks ids have
revokeObjectURLs(w, ids) ==
    [w EXCEPT !.urls = {IF u.id \in ids THEN [u EXCEPT !.revoked = @ + 1]
                                         ELSE u : u \in @}]

RECURSIVE findIndexFrom(_, _, _)
findIndexFrom(pl, id, k) ==
    IF k > Len(pl) THEN 0 - 1
    ELSE IF pl[k].id = id THEN k - 1
    ELSE findIndexFrom(pl, id, k + 1)

\* playlist.findIndex(t => t.id === id)
findIndex(pl, id) == findIndexFrom(pl, id, 1)

\* playlist[index]?.id
idAt(pl, index) ==
    IF index >= 0 /\ index < Len(pl) THEN pl[index + 1].id ELSE None

\* playlist.filter(t => t.id !== id)
withoutId(pl, id) == SelectSeq(pl, LAMBDA t : t.id # id)

hasId(pl, id) == \E k \in DOMAIN pl : pl[k].id = id

SeqFirst(s, n) == SubSeq(s, 1, Min(n, Len(s)))

\* playbackSpeeds[speedIndex] || 1.0
SpeedAt(speeds, index) ==
    IF index >= 0 /\ index < Len(speeds) /\ speeds[index + 1] # 0
    THEN speeds[index + 1] ELSE DefaultRate

----------------------------------------------------------------------------
\* The whole state as one record, so that a handler is a function on it and
\* a handler that calls another one is their composition.  aborted and
\* resolved hold the play() promises settled while a step runs, whose
\* continuations run when the step's own code has returned.

World ==
    [ playlist |-> playlist, currentTrackIndex |-> currentTrackIndex,
      isShuffleOn |-> isShuffleOn, recentHistory |-> recentHistory,
      loopCount |-> loopCount, currentPlaylistId |-> currentPlaylistId,
      appIsPlaying |-> appIsPlaying, sleepTimerDuration |-> sleepTimerDuration,
      sortOrder |-> sortOrder, db |-> db, loadPending |-> loadPending,
      currentLoop |-> currentLoop, isLoopLocked |-> isLoopLocked,
      regionLoop |-> regionLoop, activeRegion |-> activeRegion,
      isPlaying |-> isPlaying, stateRef |-> stateRef,
      isHandlingFinishRef |-> isHandlingFinishRef,
      lastRegionOutTimeRef |-> lastRegionOutTimeRef,
      wasPlayingBeforeRegion |-> wasPlayingBeforeRegion,
      rendered |-> rendered, paused |-> paused, playPending |-> playPending,
      conts |-> conts, playbackRate |-> playbackRate, audioSrc |-> audioSrc,
      readyPending |-> readyPending, regions |-> regions,
      microtask |-> microtask, timers |-> timers, now |-> now, dup |-> dup,
      dragging |-> dragging, lastSignal |-> lastSignal,
      staleLoads |-> staleLoads,
      urls |-> urls,
      playlists |-> playlists,
      pendingDeletes |-> pendingDeletes,
      creates |-> creates,
      pendingAdds |-> pendingAdds, out |-> << >>,
      aborted |-> {}, resolved |-> {} ]

Install(w) ==
    /\ playlist' = w.playlist
    /\ currentTrackIndex' = w.currentTrackIndex
    /\ isShuffleOn' = w.isShuffleOn
    /\ recentHistory' = w.recentHistory
    /\ loopCount' = w.loopCount
    /\ currentPlaylistId' = w.currentPlaylistId
    /\ appIsPlaying' = w.appIsPlaying
    /\ sleepTimerDuration' = w.sleepTimerDuration
    /\ sortOrder' = w.sortOrder
    /\ db' = w.db
    /\ loadPending' = w.loadPending
    /\ currentLoop' = w.currentLoop
    /\ isLoopLocked' = w.isLoopLocked
    /\ regionLoop' = w.regionLoop
    /\ activeRegion' = w.activeRegion
    /\ isPlaying' = w.isPlaying
    /\ stateRef' = w.stateRef
    /\ isHandlingFinishRef' = w.isHandlingFinishRef
    /\ lastRegionOutTimeRef' = w.lastRegionOutTimeRef
    /\ wasPlayingBeforeRegion' = w.wasPlayingBeforeRegion
    /\ rendered' = w.rendered
    /\ paused' = w.paused
    /\ playPending' = w.playPending
    /\ conts' = w.conts
    /\ playbackRate' = w.playbackRate
    /\ audioSrc' = w.audioSrc
    /\ readyPending' = w.readyPending
    /\ regions' = w.regions
    /\ microtask' = w.microtask
    /\ timers' = w.timers
    /\ now' = w.now
    /\ dup' = w.dup
    /\ dragging' = w.dragging
    /\ lastSignal' = IF w.regions = regions THEN w.lastSignal ELSE NoSignal
    /\ staleLoads' = w.staleLoads
    /\ urls' = w.urls
    /\ playlists' = w.playlists
    /\ pendingDeletes' = w.pendingDeletes
    /\ creates' = w.creates
    /\ pendingAdds' = w.pendingAdds
    /\ out' = w.out

Emit(w, c) == [w EXCEPT !.out = Append(@, c)]

----------------------------------------------------------------------------
\* The audio element (HTMLMediaElement) as Player drives it.  A play()
\* promise stays pending until playback has started; pause() and load()
\* reject the pending ones with AbortError; all pending ones settle together.
\* conts holds the continuations of Player that wait on the pending promises
\* and touch state: "restart" (ws.play() of the finish restart) and
\* "fallback" (its audio.play() fallback).

\* audio.pause()
audioPause(w) ==
    IF w.paused THEN Emit(w, << "pause" >>)
    ELSE Emit([w EXCEPT !.paused = TRUE, !.playPending = FALSE,
                        !.aborted = @ \cup w.conts, !.conts = {}],
              << "pause" >>)

\* audio.play() / ws.play(), cont being what Player chains on the promise
audioPlay(w, cont) ==
    LET k == IF cont = "none" THEN {} ELSE {cont} IN
    IF ~w.paused /\ ~w.playPending
    THEN Emit([w EXCEPT !.resolved = @ \cup k], << "play" >>)
    ELSE Emit([w EXCEPT !.paused = FALSE, !.playPending = TRUE,
                        !.conts = @ \cup k],
              << "play" >>)

\* wavesurfer.load(url): the media element load algorithm pauses, rejects the
\* pending play() promises and resets playbackRate to its default
wsLoad(w, src) ==
    Emit([w EXCEPT !.paused = TRUE, !.playPending = FALSE,
                   !.aborted = @ \cup w.conts, !.conts = {},
                   !.playbackRate = DefaultRate, !.audioSrc = src,
                   !.readyPending = TRUE],
         << "load", src >>)

\* Player.tsx 267-282: the continuations of the restart's promises.
\*   ws.play().then: guard off.     ws.play().catch: log, audio.play()
\*   audio.play().then/.catch: guard off.
RunReactions(w) ==
    LET guardOff == (w.resolved # {}) \/ ("fallback" \in w.aborted)
        w1 == [w EXCEPT !.isHandlingFinishRef = IF guardOff THEN FALSE ELSE @,
                        !.aborted = {}, !.resolved = {}]
        w2 == IF "restart" \in w.aborted
              THEN audioPlay(Emit(w1, << "error", "finish" >>), "fallback")
              ELSE w1
    IN  \* a fallback play() on a playing element resolves at once
        [w2 EXCEPT !.isHandlingFinishRef =
                        IF w2.resolved # {} THEN FALSE ELSE @,
                   !.resolved = {}]

Playing(w) == ~w.paused /\ ~w.playPending /\ ~w.readyPending /\ w.audioSrc # None

----------------------------------------------------------------------------
\* App: shuffle, history, track navigation

\* getWeight with LOW weighted as MED
getWeight_lowAsMed(p) ==
    CASE p = 3 -> 9
      [] OTHER -> 3

\* getWeight
getWeight(p) ==
    CASE p = 3 -> 9
      [] p = 2 -> 3
      [] p = 1 -> 1
      [] OTHER -> 3

RECURSIVE totalWeightOf(_)
totalWeightOf(c) ==
    IF c = << >> THEN 0 ELSE getWeight(Head(c).priority) + totalWeightOf(Tail(c))

\* the for loop with a strict test of the remainder
RECURSIVE selectFrom_strict(_, _, _)
selectFrom_strict(c, rv, fallback) ==
    IF c = << >> THEN fallback
    ELSE LET rest == rv - DrawScale * getWeight(Head(c).priority) IN
         IF rest < 0 THEN Head(c) ELSE selectFrom_strict(Tail(c), rest, fallback)

\* the for loop of pickNextWeightedTrack; rv is the remaining randomValue
RECURSIVE selectFrom(_, _, _)
selectFrom(c, rv, fallback) ==
    IF c = << >> THEN fallback
    ELSE LET rest == rv - DrawScale * getWeight(Head(c).priority) IN
         IF rest <= 0 THEN Head(c) ELSE selectFrom(Tail(c), rest, fallback)

\* the values Math.random() * totalWeight can take, in units of 1/DrawScale
Draws(pl, currentId) ==
    LET total == totalWeightOf(withoutId(pl, currentId)) IN
    IF total = 0 THEN {0} ELSE 0 .. (DrawScale * total - 1)

\* pickNextWeightedTrack that draws among all the tracks
pickNextWeightedTrack_keepsCurrent(pl, currentId, r) ==
    IF Len(pl) = 0 THEN 0
    ELSE IF Len(pl) = 1 THEN 0
    ELSE findIndex(pl, selectFrom(pl, r, pl[1]).id)

\* pickNextWeightedTrack(currentId), with playlist pl and draw r
pickNextWeightedTrack(pl, currentId, r) ==
    IF Len(pl) = 0 THEN 0
    ELSE IF Len(pl) = 1 THEN 0
    ELSE LET candidates == withoutId(pl, currentId)
             selectedTrack == selectFrom(candidates, r, candidates[1])
         IN  findIndex(pl, selectedTrack.id)

\* addToHistory without the slice
addToHistory_noSlice(prev, trackId) ==
    << trackId >> \o SelectSeq(prev, LAMBDA id : id # trackId)

\* addToHistory(trackId) applied to the history prev
addToHistory(prev, trackId) ==
    SeqFirst(<< trackId >> \o SelectSeq(prev, LAMBDA id : id # trackId),
             HistoryCap)

record(w, id) ==
    IF id # None THEN [w EXCEPT !.recentHistory = addToHistory(@, id)] ELSE w

\* handleTrackEnd as created by the render of (pl, index, shuffle); r is the draw
handleTrackEnd(w, pl, index, shuffle, r) ==
    IF Len(pl) = 0 THEN w
    ELSE LET currentId == idAt(pl, index)
             w1 == record(w, currentId)
         IN  IF shuffle
             THEN [w1 EXCEPT !.currentTrackIndex =
                                 pickNextWeightedTrack(pl, currentId, r)]
             ELSE [w1 EXCEPT !.currentTrackIndex = (@ + 1) % Len(pl)]

\* handleTrackSelect(index)
handleTrackSelect(w, index) ==
    [record(w, idAt(w.playlist, index)) EXCEPT !.currentTrackIndex = index]

\* the updater of the sleep timer interval that leaves isPlaying as it is
sleepTick_keepsPlaying(w) ==
    IF w.sleepTimerDuration <= 1
    THEN [w EXCEPT !.sleepTimerDuration = 0]
    ELSE [w EXCEPT !.sleepTimerDuration = @ - 1]

\* part_000 147-155: the callback of the sleep timer interval
sleepTick(w) ==
    IF w.sleepTimerDuration <= 1
    THEN [w EXCEPT !.appIsPlaying = FALSE, !.sleepTimerDuration = 0]
    ELSE [w EXCEPT !.sleepTimerDuration = @ - 1]

\* part_000 597-604: the Start Timer button
startTimer(w, totalSeconds) ==
    IF totalSeconds > 0
    THEN [w EXCEPT !.sleepTimerDuration = totalSeconds, !.appIsPlaying = TRUE]
    ELSE w

\* handleSortedTrackSelect(sortedIndex), on the list as rendered
handleSortedTrackSelect(w, sortedIndex) ==
    LET selectedTrack == w.rendered.sortedPlaylist[sortedIndex + 1]
        mainIndex == findIndex(w.playlist, selectedTrack.id)
    IN  handleTrackSelect(w, mainIndex)

\* handleNextTrack
handleNextTrack(w, r) ==
    IF Len(w.playlist) > 0
    THEN handleTrackEnd(w, w.playlist, w.currentTrackIndex, w.isShuffleOn, r)
    ELSE w

\* the find of handlePreviousTrack without the test that the track still exists
RECURSIVE findPrevious_anyId(_, _, _)
findPrevious_anyId(h, pl, currentId) ==
    IF h = << >> THEN None
    ELSE IF Head(h) # currentId THEN Head(h)
    ELSE findPrevious_anyId(Tail(h), pl, currentId)

\* recentHistory.find(id => id !== currentId && playlist.some(t => t.id === id))
RECURSIVE findPrevious(_, _, _)
findPrevious(h, pl, currentId) ==
    IF h = << >> THEN None
    ELSE IF Head(h) # currentId /\ hasId(pl, Head(h)) THEN Head(h)
    ELSE findPrevious(Tail(h), pl, currentId)

\* handlePreviousTrack
handlePreviousTrack(w) ==
    IF Len(w.playlist) > 0
    THEN LET currentId == idAt(w.playlist, w.currentTrackIndex)
             w1 == record(w, currentId)
             previousTrackId == findPrevious(w.recentHistory, w.playlist, currentId)
             prevIndex == findIndex(w.playlist, previousTrackId)
             n == Len(w.playlist)
         IN  IF previousTrackId # None /\ prevIndex # 0 - 1
             THEN [w1 EXCEPT !.currentTrackIndex = prevIndex]
             ELSE [w1 EXCEPT !.currentTrackIndex = (@ - 1 + n) % n]
    ELSE w

\* indexAfterRemove that keeps the index when the current track is removed
indexAfterRemove_noClamp(newPlaylist, prevIndex, idToRemove, currentTrackId) ==
    IF idToRemove = currentTrackId
    THEN IF Len(newPlaylist) = 0 THEN 0 ELSE prevIndex
    ELSE LET newIndex == findIndex(newPlaylist, currentTrackId) IN
         IF newIndex # 0 - 1 THEN newIndex ELSE prevIndex

\* the index handleRemoveTrack sets, given the list after the removal
indexAfterRemove(newPlaylist, prevIndex, idToRemove, currentTrackId) ==
    IF idToRemove = currentTrackId
    THEN IF Len(newPlaylist) = 0 THEN 0
         ELSE Min(prevIndex, Len(newPlaylist) - 1)
    ELSE LET newIndex == findIndex(newPlaylist, currentTrackId) IN
         IF newIndex # 0 - 1 THEN newIndex ELSE prevIndex

\* handleRemoveTrack(idToRemove)
handleRemoveTrack(w, idToRemove) ==
    LET currentTrackId == idAt(w.playlist, w.currentTrackIndex)
        newPlaylist == withoutId(w.playlist, idToRemove)
        w1 == revokeObjectURLs(w, IdsOf(w.playlist) \cap {idToRemove})
    IN  [w1 EXCEPT !.db = [p \in AllPlaylistIds |-> withoutId(w.db[p], idToRemove)],
                   !.playlist = newPlaylist,
                   !.currentTrackIndex =
                       indexAfterRemove(newPlaylist, @, idToRemove, currentTrackId)]

----------------------------------------------------------------------------
\* App: the playlist as listed

RECURSIVE lastIndexOf(_, _, _)
lastIndexOf(h, id, k) ==
    IF k = 0 THEN 0 - 1
    ELSE IF h[k] = id THEN k - 1
    ELSE lastIndexOf(h, id, k - 1)

\* historyMap.get(id): new Map(recentHistory.map((id, index) => [id, index]))
\* keeps the last index given for an id; -1 stands for an id without an entry
historyIndex(h, id) == lastIndexOf(h, id, Len(h))

\* the comparator with the tracks out of the history put first
compareRecent_absentFirst(h, a, b) ==
    LET indexA == historyIndex(h, a.id)
        indexB == historyIndex(h, b.id)
    IN  IF indexA # 0 - 1 /\ indexB # 0 - 1 THEN indexA - indexB
        ELSE IF indexA # 0 - 1 THEN 1
        ELSE IF indexB # 0 - 1 THEN 0 - 1
        ELSE 0

\* the comparator of sortedPlaylist, as sort reads it: indexA - indexB, which
\* is -Infinity or Infinity when one track only is out of the history, and
\* NaN, taken as +0 by sort, when both are
compareRecent(h, a, b) ==
    LET indexA == historyIndex(h, a.id)
        indexB == historyIndex(h, b.id)
    IN  IF indexA # 0 - 1 /\ indexB # 0 - 1 THEN indexA - indexB
        ELSE IF indexA # 0 - 1 THEN 0 - 1
        ELSE IF indexB # 0 - 1 THEN 1
        ELSE 0

\* x put into the sorted list s after every element that does not compare
\* above it
RECURSIVE insertSorted(_, _, _)
insertSorted(s, x, h) ==
    IF s = << >> THEN << x >>
    ELSE IF compareRecent(h, s[Len(s)], x) > 0
         THEN Append(insertSorted(SubSeq(s, 1, Len(s) - 1), x, h), s[Len(s)])
         ELSE Append(s, x)

\* [...playlist].sort(comparator); Array.prototype.sort is stable
RECURSIVE sortRecent(_, _)
sortRecent(pl, h) ==
    IF pl = << >> THEN << >>
    ELSE insertSorted(sortRecent(SubSeq(pl, 1, Len(pl) - 1), h), pl[Len(pl)], h)

\* sortedPlaylist
sortedPlaylist(pl, order, h) ==
    IF order = "recent" /\ Len(h) > 0 THEN sortRecent(pl, h) ELSE pl

----------------------------------------------------------------------------
\* Player: rendering and effects

\* what a render of the current state shows; Player is mounted only while the
\* playlist is non-empty (part_000 507)
RenderOf(w) ==
    [ mounted |-> Len(w.playlist) > 0,
      playlist |-> w.playlist, currentTrackIndex |-> w.currentTrackIndex,
      isShuffleOn |-> w.isShuffleOn, loopCount |-> w.loopCount,
      currentLoop |-> w.currentLoop, isLoopLocked |-> w.isLoopLocked,
      regionLoop |-> w.regionLoop, activeRegion |-> w.activeRegion,
      isPlaying |-> w.isPlaying,
      \* App's own isPlaying and the sleep timer, which Player is not given
      appIsPlaying |-> w.appIsPlaying,
      sleepTimerDuration |-> w.sleepTimerDuration,
      sortedPlaylist |-> sortedPlaylist(w.playlist, w.sortOrder, w.recentHistory) ]

Dirty(w) == w.rendered # RenderOf(w)

\* Player.tsx 76-87: the snapshot the effect stores in stateRef.current;
\* onTrackEnd is the handleTrackEnd of that render, i.e. its playlist,
\* currentTrackIndex and isShuffleOn
RefOf(r) ==
    [ isLoopLocked |-> r.isLoopLocked, currentLoop |-> r.currentLoop,
      loopCount |-> r.loopCount, activeRegion |-> r.activeRegion,
      onTrackEnd |-> [playlist |-> r.playlist,
                      currentTrackIndex |-> r.currentTrackIndex,
                      isShuffleOn |-> r.isShuffleOn],
      isPlaying |-> r.isPlaying, playbackSpeeds |-> playbackSpeeds ]

\* Player.tsx 293-297: wsRegions.on('region-removed')
onRegionRemoved(w) == [w EXCEPT !.activeRegion = None, !.regionLoop = 0]

\* regionsPlugin.clearRegions(): removes every region, each removal emitting
\* region-removed
clearRegions(w) ==
    IF w.regions = {} THEN w
    ELSE onRegionRemoved([w EXCEPT !.regions = {}])

\* Player.tsx 326-338: useEffect[currentTrackIndex]
trackChangeEffect(w) ==
    LET w1 == [w EXCEPT !.currentLoop = 0, !.isHandlingFinishRef = FALSE,
                        !.regionLoop = 0, !.isLoopLocked = FALSE]
    IN  [clearRegions(w1) EXCEPT !.activeRegion = None]

\* Player.tsx 340-353: load the current track unless it is the loaded source
loadEffect(w, r) ==
    LET id == idAt(r.playlist, r.currentTrackIndex) IN
    IF id # None /\ w.audioSrc # id THEN wsLoad(w, id) ELSE w

\* Player.tsx 356-365: playback rate effect
rateEffect(w, r) ==
    [w EXCEPT !.playbackRate =
                  SpeedAt(playbackSpeeds, Min(r.currentLoop, r.loopCount - 1))]

\* Player.tsx 368-376: play/pause effect (safePlay only logs)
playPauseEffect(w, r) ==
    IF r.isPlaying THEN audioPlay(w, "none") ELSE audioPause(w)

\* the Player fields of a component that is not mounted, and of a fresh one
Unmounted(w) ==
    [w EXCEPT !.currentLoop = 0, !.isLoopLocked = FALSE, !.regionLoop = 0,
              !.activeRegion = None, !.isPlaying = FALSE,
              !.stateRef = RefOf([RenderOf(w) EXCEPT
                                    !.currentLoop = 0, !.isLoopLocked = FALSE,
                                    !.regionLoop = 0, !.activeRegion = None,
                                    !.isPlaying = FALSE]),
              !.isHandlingFinishRef = FALSE, !.lastRegionOutTimeRef = 0,
              !.wasPlayingBeforeRegion = FALSE,
              !.paused = TRUE, !.playPending = FALSE, !.conts = {},
              !.aborted = {}, !.resolved = {},
              !.playbackRate = DefaultRate, !.audioSrc = None,
              !.readyPending = FALSE, !.regions = {}, !.microtask = NoTask,
              !.timers = {}, !.dup = NoDup, !.dragging = FALSE,
              !.lastSignal = NoSignal]

\* one render of the pending state followed by the effects whose dependencies
\* changed, in the order Player declares them
CommitOnce(w) ==
    LET r == RenderOf(w)
        old == w.rendered
        mount == r.mounted /\ ~old.mounted
    IN  IF ~r.mounted
        THEN [Unmounted(w) EXCEPT !.rendered = RenderOf(Unmounted(w))]
        ELSE LET w1 == [w EXCEPT !.stateRef = RefOf(r), !.rendered = r]
                 w2 == IF mount \/ r.currentTrackIndex # old.currentTrackIndex
                       THEN trackChangeEffect(w1) ELSE w1
                 w3 == loadEffect(w2, r)
                 w4 == IF mount \/ r.currentLoop # old.currentLoop
                             \/ r.loopCount # old.loopCount
                       THEN rateEffect(w3, r) ELSE w3
                 w5 == IF mount \/ r.isPlaying # old.isPlaying
                       THEN playPauseEffect(w4, r) ELSE w4
             IN  RunReactions(w5)

CommitIfDirty(w) == IF Dirty(w) THEN CommitOnce(w) ELSE w

\* a click: React renders the update and flushes its effects, and the updates
\* those effects make, before the next task
Flush(w) == CommitIfDirty(CommitIfDirty(CommitIfDirty(w)))

----------------------------------------------------------------------------
\* Player: WaveSurfer and regions handlers

\* the rate of the next pass computed as if the track were never locked
nextSpeedOf_ignoresLock(s) ==
    SpeedAt(s.playbackSpeeds, Min(s.currentLoop + 1, s.loopCount - 1))

\* Player.tsx 242-248: the rate of the next pass
nextSpeedOf(s) ==
    LET nextLoopIndex == IF s.isLoopLocked THEN s.currentLoop ELSE s.currentLoop + 1
        speedIndex == Min(nextLoopIndex, s.loopCount - 1)
    IN  SpeedAt(s.playbackSpeeds, speedIndex)

\* shouldLoop with the pass budget off by one
shouldLoop_offByOne(s) == s.isLoopLocked \/ s.currentLoop < s.loopCount

\* Player.tsx 242: shouldLoop
shouldLoop(s) == s.isLoopLocked \/ s.currentLoop < s.loopCount - 1

\* ws.on('finish') that releases the guard before it signals track-end
onFinish_clearsLatch(w, r) ==
    IF w.isHandlingFinishRef THEN w
    ELSE LET s == w.stateRef IN
         IF s.activeRegion # None THEN w
         ELSE IF shouldLoop(s)
         THEN [w EXCEPT !.isHandlingFinishRef = TRUE,
                        !.currentLoop = IF s.isLoopLocked THEN @ ELSE @ + 1,
                        !.microtask = [nextSpeed |-> nextSpeedOf(s)]]
         ELSE Emit(handleTrackEnd(w, s.onTrackEnd.playlist,
                                  s.onTrackEnd.currentTrackIndex,
                                  s.onTrackEnd.isShuffleOn, r),
                   << "trackEnd" >>)

\* Player.tsx 224-290: ws.on('finish'); r is the draw handleTrackEnd may make
onFinish(w, r) ==
    IF w.isHandlingFinishRef THEN w
    ELSE LET s == w.stateRef IN
         IF s.activeRegion # None THEN w
         ELSE IF shouldLoop(s)
         THEN [w EXCEPT !.isHandlingFinishRef = TRUE,
                        !.currentLoop = IF s.isLoopLocked THEN @ ELSE @ + 1,
                        !.microtask = [nextSpeed |-> nextSpeedOf(s)]]
         ELSE Emit(handleTrackEnd([w EXCEPT !.isHandlingFinishRef = TRUE],
                                  s.onTrackEnd.playlist,
                                  s.onTrackEnd.currentTrackIndex,
                                  s.onTrackEnd.isShuffleOn, r),
                   << "trackEnd" >>)

\* Player.tsx 257-283: the restart microtask
restartMicrotask(w) ==
    LET w1 == audioPause(w)
        w2 == Emit([w1 EXCEPT !.playbackRate = w.microtask.nextSpeed],
                   << "setRate", w.microtask.nextSpeed >>)
        w3 == Emit(w2, << "seek", "start" >>)
        w4 == audioPlay(w3, "restart")
    IN  [w4 EXCEPT !.microtask = NoTask]

\* region-created that discards the other regions after it has set the state
onRegionCreated_removeLast(w, region) ==
    LET others == w.regions \ {region}
        w1 == [w EXCEPT !.regions = {region}, !.activeRegion = region,
                        !.regionLoop = 0]
        w2 == IF others = {} THEN w1 ELSE onRegionRemoved(w1)
    IN  IF w.wasPlayingBeforeRegion
        THEN [w2 EXCEPT !.timers = @ \cup {[kind |-> "created", region |-> None,
                                            cleared |-> FALSE,
                                            track |-> None]}]
        ELSE w2

\* Player.tsx 139-162: wsRegions.on('region-created') for the new region
onRegionCreated(w, region) ==
    LET others == w.regions \ {region}
        w1 == IF others = {} THEN [w EXCEPT !.regions = {region}]
              ELSE onRegionRemoved([w EXCEPT !.regions = {region}])
        w2 == [w1 EXCEPT !.activeRegion = region, !.regionLoop = 0]
    IN  IF w.wasPlayingBeforeRegion
        THEN [w2 EXCEPT !.timers = @ \cup {[kind |-> "created", region |-> None,
                                            cleared |-> FALSE,
                                            track |-> None]}]
        ELSE w2

\* the timeout of region-created without the resume
createdTimeout_noResume(w) == w

\* Player.tsx 150-160: the timeout armed by region-created
createdTimeout(w) ==
    IF w.paused THEN audioPlay(Emit(w, << "resume" >>), "none") ELSE w

\* Player.tsx 165-167: ws.on('interaction')
onInteraction(w) == [w EXCEPT !.wasPlayingBeforeRegion = ~w.paused]

\* Player.tsx 170-172: wsRegions.on('region-updated')
onRegionUpdated(w, region) == [w EXCEPT !.activeRegion = region]

\* the track App has current; a re-seek carries the one it was scheduled on
\* (track, like cleared, is a ghost field, no code reads it)
CurrentTrack(w) == idAt(w.playlist, w.currentTrackIndex)

\* the debounce test with no window
debounced_noWindow(w) == w.now - w.lastRegionOutTimeRef < 0

\* Player.tsx 178: the debounce test
debounced(w) == w.now - w.lastRegionOutTimeRef < DebounceMs

\* region-out that counts the crossing and schedules no re-seek
onRegionOut_noReseek(w, region) ==
    IF debounced(w) THEN Emit(w, << "debounced" >>)
    ELSE LET w1 == [w EXCEPT !.lastRegionOutTimeRef = w.now] IN
         IF w1.stateRef.activeRegion = None
         THEN Emit(w1, << "regionInactive" >>)
         ELSE [w1 EXCEPT !.regionLoop = @ + 1]

\* Player.tsx 175-221: wsRegions.on('region-out')
onRegionOut(w, region) ==
    IF debounced(w) THEN Emit(w, << "debounced" >>)
    ELSE LET w1 == [w EXCEPT !.lastRegionOutTimeRef = w.now] IN
         IF w1.stateRef.activeRegion = None
         THEN Emit(w1, << "regionInactive" >>)
         ELSE [w1 EXCEPT !.regionLoop = @ + 1,
                         !.timers = @ \cup {[kind |-> "regionOut",
                                             region |-> region,
                                             cleared |-> FALSE,
                                             track |-> CurrentTrack(w)]}]

\* the timeout of region-out without the second look at the region
regionOutTimeout_noRecheck(w, region) ==
    LET w1 == Emit(w, << "seek", region >>) IN
    IF w1.paused THEN audioPlay(w1, "none") ELSE w1

\* Player.tsx 205-220: the timeout armed by region-out
regionOutTimeout(w, region) ==
    IF w.stateRef.activeRegion = None THEN Emit(w, << "regionCleared" >>)
    ELSE LET w1 == Emit(w, << "seek", region >>) IN
         IF w1.paused THEN audioPlay(w1, "none") ELSE w1

\* Player.tsx 300-318: ws.on('ready')
onReady(w) ==
    LET s == w.stateRef
        w1 == [w EXCEPT !.readyPending = FALSE,
                        !.playbackRate =
                            SpeedAt(s.playbackSpeeds,
                                    Min(s.currentLoop, s.loopCount - 1))]
    IN  IF s.isPlaying THEN audioPlay(w1, "none") ELSE w1

\* Player.tsx 379-381: handlePlayPause
handlePlayPause(w) == [w EXCEPT !.isPlaying = ~w.rendered.isPlaying]

\* Player.tsx 534: the loop lock button
toggleLoopLock(w) == [w EXCEPT !.isLoopLocked = ~w.rendered.isLoopLocked]

\* a clear that removes the region and leaves the count of crossings
handleClearRegion_keepsCount(w) ==
    [w EXCEPT !.stateRef.activeRegion = None,
              !.timers = {[t EXCEPT !.cleared = TRUE] : t \in @},
              !.regions = {}, !.activeRegion = None]

\* Player.tsx 395-404: handleClearRegion; pending re-seeks are marked as
\* overtaken by a clear (cleared is a ghost field, no code reads it)
handleClearRegion(w) ==
    LET w1 == [w EXCEPT !.stateRef.activeRegion = None,
                        !.timers = {[t EXCEPT !.cleared = TRUE] : t \in @}]
        w2 == clearRegions(w1)
    IN  [w2 EXCEPT !.activeRegion = None, !.regionLoop = 0]

----------------------------------------------------------------------------
\* Initial state: App has read the playlists and selected the first one, its
\* tracks are being loaded, Player is not mounted yet (the playlist is empty).

InitWorld(lc) ==
    LET base == [ playlist |-> << >>, currentTrackIndex |-> 0,
                  isShuffleOn |-> TRUE, recentHistory |-> << >>,
                  loopCount |-> lc, currentPlaylistId |-> 1,
                  appIsPlaying |-> FALSE, sleepTimerDuration |-> 0,
                  sortOrder |-> "added", db |-> InitialDb, loadPending |-> 1,
                  currentLoop |-> 0, isLoopLocked |-> FALSE, regionLoop |-> 0,
                  activeRegion |-> None, isPlaying |-> FALSE,
                  stateRef |-> None, isHandlingFinishRef |-> FALSE,
                  lastRegionOutTimeRef |-> 0,
                  wasPlayingBeforeRegion |-> FALSE, rendered |-> None,
                  paused |-> TRUE, playPending |-> FALSE, conts |-> {},
                  playbackRate |-> DefaultRate, audioSrc |-> None,
                  readyPending |-> FALSE, regions |-> {}, microtask |-> NoTask,
                  timers |-> {}, now |-> StartNow, dup |-> NoDup,
                  dragging |-> FALSE, lastSignal |-> NoSignal,
                  staleLoads |-> {},
                  urls |-> {},
                  playlists |-> InitialPlaylists,
                  pendingDeletes |-> {},
                  creates |-> {},
                  pendingAdds |-> {},
                  out |-> << >>,
                  aborted |-> {}, resolved |-> {} ]
        u == Unmounted(base)
    IN  [u EXCEPT !.rendered = RenderOf(u)]

InitFrom(w) ==
    /\ playlist = w.playlist
    /\ currentTrackIndex = w.currentTrackIndex
    /\ isShuffleOn = w.isShuffleOn
    /\ recentHistory = w.recentHistory
    /\ loopCount = w.loopCount
    /\ currentPlaylistId = w.currentPlaylistId
    /\ appIsPlaying = w.appIsPlaying
    /\ sleepTimerDuration = w.sleepTimerDuration
    /\ sortOrder = w.sortOrder
    /\ db = w.db
    /\ loadPending = w.loadPending
    /\ currentLoop = w.currentLoop
    /\ isLoopLocked = w.isLoopLocked
    /\ regionLoop = w.regionLoop
    /\ activeRegion = w.activeRegion
    /\ isPlaying = w.isPlaying
    /\ stateRef = w.stateRef
    /\ isHandlingFinishRef = w.isHandlingFinishRef
    /\ lastRegionOutTimeRef = w.lastRegionOutTimeRef
    /\ wasPlayingBeforeRegion = w.wasPlayingBeforeRegion
    /\ rendered = w.rendered
    /\ paused = w.paused
    /\ playPending = w.playPending
    /\ conts = w.conts
    /\ playbackRate = w.playbackRate
    /\ audioSrc = w.audioSrc
    /\ readyPending = w.readyPending
    /\ regions = w.regions
    /\ microtask = w.microtask
    /\ timers = w.timers
    /\ now = w.now
    /\ dup = w.dup
    /\ dragging = w.dragging
    /\ lastSignal = w.lastSignal
    /\ staleLoads = w.staleLoads
    /\ urls = w.urls
    /\ playlists = w.playlists
    /\ pendingDeletes = w.pendingDeletes
    /\ creates = w.creates
    /\ pendingAdds = w.pendingAdds
    /\ out = w.out

\* loopCount comes from localStorage, one of the values the select offers
Init == \E lc \in 1 .. MaxLoopCount : InitFrom(InitWorld(lc))

\* nothing saved in localStorage: loopCount has its default (part_000 43)
InitDefault == InitFrom(InitWorld(DefaultLoopCount))

----------------------------------------------------------------------------
\* Steps.  Idle: no microtask is queued (a microtask runs before any task).
\* Settled: nothing waits to be rendered; a person acts on what is rendered,
\* and a pass of a track lasts longer than a render.

Idle == microtask = NoTask

\* no URL has been revoked as often as is counted
ReleasesCounted == \A u \in urls : u.revoked < MaxReleases
Settled == Idle /\ ~Dirty(World)
Mounted == rendered.mounted

\* loadTracks resumed after its await without looking at its token
loadTracksResolved_noToken(w, p, isMounted) ==
    [w EXCEPT !.playlist = w.db[p],
              !.currentTrackIndex = 0,
              !.appIsPlaying = FALSE,
              !.audioSrc = IF @ = None THEN None ELSE StaleSrc]

\* part_000 96-109: loadTracks after getTracksForPlaylist(p) has resolved;
\* isMounted is the token of the effect run that started it.  The tracks get
\* new object URLs, so the source the audio element holds matches none
loadTracksResolved(w, p, isMounted) ==
    IF ~isMounted THEN Emit(w, << "staleLoad" >>)
    ELSE [createObjectURLs(w, IdsOf(w.db[p])) EXCEPT
              !.playlist = w.db[p],
              !.currentTrackIndex = 0,
              !.appIsPlaying = FALSE,
              !.audioSrc = IF @ = None THEN None ELSE StaleSrc]

\* the request of the latest effect run resolves
LoadTracksDone ==
    /\ Idle /\ loadPending # None
    /\ Install(loadTracksResolved([World EXCEPT !.loadPending = None],
                                  loadPending, TRUE))

\* a request resolves whose effect has been cleaned up since
LoadTracksStale ==
    /\ Idle
    /\ \E p \in staleLoads :
          Install(loadTracksResolved([World EXCEPT !.staleLoads = @ \ {p}],
                                     p, FALSE))

\* the render task of React for updates made outside a click
Commit ==
    /\ Idle /\ Dirty(World)
    /\ Install(CommitOnce(World))

\* the media element reaches the end of the track: it pauses (ended) and
\* WaveSurfer emits finish
Finish ==
    /\ Settled /\ Mounted /\ Playing(World)
    /\ \E r \in Draws(stateRef.onTrackEnd.playlist,
                      idAt(stateRef.onTrackEnd.playlist,
                           stateRef.onTrackEnd.currentTrackIndex)) :
          LET w1 == onFinish([World EXCEPT !.paused = TRUE], r) IN
          Install([w1 EXCEPT !.dup = [track |-> audioSrc,
                                      counted |-> w1.currentLoop # currentLoop,
                                      ended |-> w1.out = << << "trackEnd" >> >>]])

\* the finish of a completion is delivered a second time, at any later moment
DuplicateFinish ==
    /\ Idle /\ Mounted /\ dup # NoDup
    /\ \E r \in Draws(stateRef.onTrackEnd.playlist,
                      idAt(stateRef.onTrackEnd.playlist,
                           stateRef.onTrackEnd.currentTrackIndex)) :
          Install(onFinish([World EXCEPT !.dup = NoDup], r))

RestartMicrotask ==
    /\ microtask # NoTask
    /\ Install(RunReactions(restartMicrotask(World)))

\* playback starts: the pending play() promises resolve
PlayStarted ==
    /\ Idle /\ playPending /\ ~paused /\ ~readyPending /\ audioSrc # None
    /\ Install(RunReactions([World EXCEPT !.playPending = FALSE,
                                          !.resolved = conts, !.conts = {}]))

Ready ==
    /\ Idle /\ readyPending
    /\ Install(RunReactions(onReady(World)))

\* a click on the waveform
Interaction ==
    /\ Settled /\ Mounted /\ ~dragging
    /\ Install(onInteraction(World))

\* the user starts dragging on the waveform: interaction is emitted, and the
\* drag may pause playback (Player.tsx 147-148)
BeginRegionDrag ==
    /\ Settled /\ Mounted /\ ~dragging
    /\ \E pauses \in BOOLEAN :
          LET w1 == [onInteraction(World) EXCEPT !.dragging = TRUE] IN
          Install(RunReactions(IF pauses THEN audioPause(w1) ELSE w1))

\* the drag ends: the plugin adds the region and emits region-created
RegionCreated ==
    /\ Idle /\ dragging
    /\ \E region \in RegionIds \ regions :
          Install(onRegionCreated([World EXCEPT !.dragging = FALSE,
                                                !.regions = @ \cup {region}],
                                  region))

RegionUpdated ==
    /\ Settled /\ ~dragging
    /\ \E region \in regions : Install(onRegionUpdated(World, region))

\* the playhead leaves a region; the plugin may emit this more than once
RegionOut ==
    /\ Idle /\ Playing(World) /\ regionLoop < MaxRegionLoop
    /\ \E region \in regions :
          Install(onRegionOut([World EXCEPT !.lastSignal = now], region))

TimerFire ==
    /\ Idle
    /\ \E t \in timers :
          LET w1 == [World EXCEPT !.timers = @ \ {t}] IN
          Install(RunReactions(IF t.kind = "regionOut"
                               THEN regionOutTimeout(w1, t.region)
                               ELSE createdTimeout(w1)))

\* time passes; the code reads the clock only to compare it with
\* lastRegionOutTimeRef, so it is left to advance only while that comparison
\* can still change
Tick ==
    /\ Idle /\ now + TickMs <= MaxNow
    /\ lastRegionOutTimeRef # 0 /\ now - lastRegionOutTimeRef < DebounceMs
    /\ Install([World EXCEPT !.now = @ + TickMs])

\* clicks
PlayPause ==
    /\ Settled /\ Mounted
    /\ Install(Flush(handlePlayPause(World)))

LoopLock ==
    /\ Settled /\ Mounted
    /\ Install(Flush(toggleLoopLock(World)))

ClearRegion ==
    /\ Settled /\ Mounted /\ rendered.activeRegion # None
    /\ Install(Flush(handleClearRegion(World)))

TrackSelect ==
    /\ Settled
    /\ \E sortedIndex \in 0 .. Len(rendered.sortedPlaylist) - 1 :
          Install(Flush(handleSortedTrackSelect(World, sortedIndex)))

\* the Start Timer button, shown while no timer is set; the minutes field
\* takes any number, so any number of seconds can be asked for
StartTimer ==
    /\ Settled /\ rendered.sleepTimerDuration = 0
    /\ \E totalSeconds \in 1 .. MaxSleepSeconds :
          Install(Flush(startTimer(World, totalSeconds)))

\* part_000 576: the Cancel Timer button, shown while a timer is set
CancelTimer ==
    /\ Settled /\ rendered.sleepTimerDuration > 0
    /\ Install(Flush([World EXCEPT !.sleepTimerDuration = 0]))

\* part_000 144-158: the interval armed by the effect of the latest render,
\* if that render had isPlaying and a duration above 0, fires; a second is
\* longer than a render
SleepTick ==
    /\ Settled /\ rendered.appIsPlaying /\ rendered.sleepTimerDuration > 0
    /\ Install(sleepTick(World))

\* Playlist.tsx 110, 118: the two buttons of the sort order
SetSortOrder ==
    /\ Settled
    /\ \E order \in {"added", "recent"} \ {sortOrder} :
          Install(Flush([World EXCEPT !.sortOrder = order]))

NextTrack ==
    /\ Settled /\ Mounted
    /\ \E r \in Draws(playlist, idAt(playlist, currentTrackIndex)) :
          Install(Flush(handleNextTrack(World, r)))

PreviousTrack ==
    /\ Settled /\ Mounted
    /\ Install(Flush(handlePreviousTrack(World)))

RemoveTrack ==
    /\ Settled /\ ReleasesCounted
    /\ \E k \in DOMAIN playlist :
          Install(Flush(handleRemoveTrack(World, playlist[k].id)))

ToggleShuffle ==
    /\ Settled /\ Mounted
    /\ Install(Flush([World EXCEPT !.isShuffleOn = ~@]))

\* part_000 82-119: the effect of a new currentPlaylistId: the cleanup of the
\* previous run clears its token, loadTracks revokes the URLs of the playlist
\* of this render and asks for the tracks of playlist p
loadTracksEffect(w, p) ==
    [revokeObjectURLs(w, IdsOf(w.playlist)) EXCEPT
        !.loadPending = p,
        !.staleLoads = IF w.loadPending = None THEN @
                       ELSE @ \cup {w.loadPending}]

\* part_000 213-235: handleCreatePlaylist up to its await, with a name
\* entered; id is the id createPlaylist gives to the new playlist
handleCreatePlaylist(w, id) ==
    [w EXCEPT !.creates = @ \cup {[id |-> id, resolved |-> FALSE]}]

\* setCurrentPlaylistId(p) with the effect that a new value sets off
setCurrentPlaylistId(w, p) ==
    IF p = w.currentPlaylistId THEN w
    ELSE loadTracksEffect([w EXCEPT !.currentPlaylistId = p], p)

\* part_000 229-231: handleCreatePlaylist after createPlaylist has resolved
createPlaylistResolved(w, id) ==
    setCurrentPlaylistId(
        [w EXCEPT !.playlists = Append(@, id),
                  !.creates = (@ \ {[id |-> id, resolved |-> FALSE]})
                                \cup {[id |-> id, resolved |-> TRUE]}],
        id)

\* part_000 237-251: handleDeletePlaylist up to its await, the user
\* confirming; next is None when playlists[...] is undefined
handleDeletePlaylist(w) ==
    IF w.currentPlaylistId = None THEN w
    ELSE IF Len(w.playlists) <= 1 THEN Emit(w, << "alert" >>)
    ELSE LET idToDelete == w.currentPlaylistId
             currentIndex == indexOf(w.playlists, idToDelete)
             nextIndex == IF currentIndex = 0 THEN 1 ELSE currentIndex - 1
             nextPlaylist == IF nextIndex >= 0 /\ nextIndex < Len(w.playlists)
                             THEN w.playlists[nextIndex + 1] ELSE None
         IN  [w EXCEPT !.pendingDeletes =
                           @ \cup {[id |-> idToDelete, next |-> nextPlaylist]}]

\* deletePlaylist(id) in db.ts 86-106 has run: the playlist and its tracks
\* are gone from the store; part_000 253-254 then update App, and
\* nextPlaylist.id throws when nextPlaylist is undefined
deletePlaylistResolved(w, d) ==
    LET w1 == [w EXCEPT !.db[d.id] = << >>,
                        !.pendingDeletes = @ \ {d},
                        !.playlists = SelectSeq(@, LAMBDA q : q # d.id)]
    IN  IF d.next = None THEN w1 ELSE setCurrentPlaylistId(w1, d.next)

\* part_000 657: onPlaylistChange, and the effect it sets off
SelectPlaylist ==
    /\ Settled /\ ReleasesCounted
    /\ \E p \in SeqRange(playlists) \ {currentPlaylistId} :
          Install(loadTracksEffect([World EXCEPT !.currentPlaylistId = p], p))

\* the ids crypto.randomUUID gives to added tracks
NewTrackIds == (NumTracks + 2) .. (NumTracks + 1 + MaxAddedTracks)

\* part_000 175-181: addFilesToPlaylist up to its await, for one audio
\* file; the playlist id is the one of the render
addFilesToPlaylist(w, id) ==
    IF w.currentPlaylistId = None THEN w
    ELSE [w EXCEPT !.pendingAdds =
                       @ \cup {[playlistId |-> w.currentPlaylistId, id |-> id]}]

\* part_000 191-210: addTrackToDB has stored the track under the playlist
\* the batch was started for, and the continuation appends it to the
\* playlist in memory
addFilesResolved(w, a) ==
    [createObjectURLs(w, {a.id}) EXCEPT
        !.db[a.playlistId] = Append(@, Track(a.id)),
        !.pendingAdds = @ \ {a},
        !.playlist = Append(@, Track(a.id))]

\* a drop or a file input change
AddFiles ==
    /\ Settled
    /\ \E id \in NewTrackIds :
          /\ \A p \in AllPlaylistIds : ~hasId(db[p], id)
          /\ \A a \in pendingAdds : a.id # id
          /\ Install(addFilesToPlaylist(World, id))

AddFilesDone ==
    /\ Idle
    /\ \E a \in pendingAdds : Install(addFilesResolved(World, a))

\* the New Playlist button and the name prompt
CreatePlaylist ==
    /\ Settled
    /\ \E id \in NewPlaylistIds \ {c.id : c \in creates} :
          Install(handleCreatePlaylist(World, id))

CreatePlaylistDone ==
    /\ Idle /\ ReleasesCounted
    /\ \E c \in creates :
          /\ ~c.resolved
          /\ Install(createPlaylistResolved(World, c.id))

\* the Delete Playlist button and its confirm dialog
DeletePlaylist ==
    /\ Settled
    /\ Install(handleDeletePlaylist(World))

DeletePlaylistDone ==
    /\ Idle /\ ReleasesCounted
    /\ \E d \in pendingDeletes : Install(deletePlaylistResolved(World, d))

\* part_000 406-408: handleLoopCountChange
LoopCountChange ==
    /\ Settled
    /\ \E n \in (1 .. MaxLoopCount) \ {loopCount} :
          Install(Flush([World EXCEPT !.loopCount = n]))

\* the track loop: passes, restarts, track changes; no region, fixed loopCount
NextLoop ==
    \/ LoadTracksDone \/ Commit \/ Finish \/ DuplicateFinish
    \/ RestartMicrotask \/ PlayStarted \/ Ready
    \/ PlayPause \/ LoopLock
    \/ TrackSelect \/ NextTrack \/ PreviousTrack \/ RemoveTrack
    \/ ToggleShuffle

SpecLoop == Init /\ [][NextLoop]_vars

\* the passes of the tracks of one playlist: finishes, restarts, track-end
\* and next; no removal, no region, fixed loopCount
NextPass ==
    \/ LoadTracksDone \/ Commit \/ Finish \/ DuplicateFinish
    \/ RestartMicrotask \/ PlayStarted \/ Ready
    \/ PlayPause \/ LoopLock \/ NextTrack

SpecPass == Init /\ [][NextPass]_vars

\* a history of n tracks played earlier and no longer in any playlist (the
\* history keeps the ids of removed tracks)
OldHistory(n) == [i \in 1 .. n |-> HistoryCap + i]

\* the state after construction with the given priorities for the tracks of
\* playlist 1 and the given history
InitApp(prios, hist) ==
    InitFrom([InitWorld(DefaultLoopCount) EXCEPT
                !.db = [p \in AllPlaylistIds |->
                          IF p = 1
                          THEN [i \in DOMAIN prios |->
                                  [id |-> i, priority |-> prios[i]]]
                          ELSE << >>],
                !.recentHistory = hist])

\* navigation in a playlist while the history is empty, almost full or full
InitHistory ==
    \E n \in {0} \cup ((HistoryCap - MaxNewIds) .. HistoryCap) :
        InitApp([i \in 1 .. NumTracks |-> DefaultPriority], OldHistory(n))

NextHistory ==
    \/ LoadTracksDone \/ Commit \/ Ready
    \/ TrackSelect \/ NextTrack \/ PreviousTrack \/ RemoveTrack
    \/ ToggleShuffle

SpecHistory == InitHistory /\ [][NextHistory]_vars

\* shuffle over a playlist whose tracks have any priorities: LOW, MED, HIGH
\* or none stored
InitShuffle ==
    \E n \in 1 .. NumShuffleTracks :
        \E prios \in [1 .. n -> None .. HighPriority] :
            InitApp(prios, << >>)

\* a next while fewer than MaxPicks tracks have been left
BoundedNext == Len(recentHistory) < MaxPicks /\ NextTrack

NextShuffle ==
    \/ LoadTracksDone \/ Commit \/ Ready \/ BoundedNext

SpecShuffle == InitShuffle /\ [][NextShuffle]_vars

\* selecting, going back, removing and sorting in a playlist of 1 to NumShuffleTracks
\* tracks, from an empty history
InitNavigate ==
    \E n \in 1 .. NumShuffleTracks :
        InitApp([i \in 1 .. n |-> DefaultPriority], << >>)

NextNavigate ==
    \/ LoadTracksDone \/ Commit \/ Ready
    \/ TrackSelect \/ PreviousTrack \/ RemoveTrack \/ SetSortOrder

SpecNavigate == InitNavigate /\ [][NextNavigate]_vars

\* the passes of a track under changes of configuration: finishes delivered
\* once, restarts, the loop lock, the loopCount select and next
NextConfig ==
    \/ LoadTracksDone \/ Commit \/ Finish \/ RestartMicrotask
    \/ PlayStarted \/ Ready \/ PlayPause \/ LoopLock \/ LoopCountChange
    \/ NextTrack

SpecConfig == Init /\ [][NextConfig]_vars

\* the region drill beside the passes of the track: regions created by a
\* drag and cleared, boundary crossings and their re-seeks, finishes and
\* restarts
NextDrill ==
    \/ LoadTracksDone \/ Commit \/ PlayStarted \/ Ready \/ PlayPause
    \/ BeginRegionDrag \/ RegionCreated \/ ClearRegion
    \/ RegionOut \/ TimerFire
    \/ Finish \/ DuplicateFinish \/ RestartMicrotask

SpecDrill == InitDefault /\ [][NextDrill]_vars

\* the sleep timer beside the transport: play, pause, the passes of a track
\* and their restarts
NextSleep ==
    \/ LoadTracksDone \/ Commit \/ PlayStarted \/ Ready \/ PlayPause
    \/ Finish \/ RestartMicrotask
    \/ StartTimer \/ CancelTimer \/ SleepTick

SpecSleep == InitDefault /\ [][NextSleep]_vars

\* the region drill within one track, with the default loopCount
NextRegion ==
    \/ LoadTracksDone \/ Commit \/ PlayStarted \/ Ready
    \/ Interaction \/ BeginRegionDrag \/ RegionCreated \/ RegionUpdated
    \/ RegionOut \/ TimerFire \/ Tick
    \/ PlayPause \/ ClearRegion

SpecRegion == InitDefault /\ [][NextRegion]_vars

\* the crossings of a region and their re-seeks, with play and pause; a
\* region is replaced by dragging a new one
NextCrossing ==
    \/ LoadTracksDone \/ Commit \/ PlayStarted \/ Ready
    \/ BeginRegionDrag \/ RegionCreated
    \/ RegionOut \/ TimerFire \/ Tick
    \/ PlayPause

SpecCrossing == InitDefault /\ [][NextCrossing]_vars

\* region creation alone: drags, the regions they create and the resume that
\* region-created schedules; a timer that was armed fires in the end
NextCreate ==
    \/ LoadTracksDone \/ Commit \/ PlayStarted \/ Ready
    \/ Interaction \/ BeginRegionDrag \/ RegionCreated \/ TimerFire
    \/ PlayPause \/ ClearRegion

FairSpecCreate == InitDefault /\ [][NextCreate]_vars /\ WF_vars(TimerFire)

\* every step of the program
Next ==
    \/ NextLoop \/ NextRegion \/ SelectPlaylist \/ LoadTracksStale
    \/ CreatePlaylist \/ CreatePlaylistDone
    \/ DeletePlaylist \/ DeletePlaylistDone
    \/ AddFiles \/ AddFilesDone
    \/ LoopCountChange
    \/ SetSortOrder \/ StartTimer \/ CancelTimer \/ SleepTick

Spec == Init /\ [][Next]_vars

----------------------------------------------------------------------------
\* Properties

\* what the restart microtask issues: pause, setRate, seek to 0, play
RestartCommands(rate) ==
    << << "pause" >>, << "setRate", rate >>, << "seek", "start" >>, << "play" >> >>

\* a finish the handler accepts as the end of a pass of an unlocked track
\* with no region
PassCompletes ==
    Finish /\ ~isHandlingFinishRef /\ ~isLoopLocked /\ activeRegion = None

\* C1: with loopCount = N fixed, no lock and no region, a finish that ends
\* pass k < N-1 adds exactly 1 to currentLoop and queues a restart whose
\* commands are pause, setRate(playbackSpeeds[new currentLoop]), seek(0), play;
\* the finish that ends pass N-1 signals track-end and queues no restart.
C1_PassSchedule ==
    /\ [][PassCompletes =>
            IF currentLoop < loopCount - 1
            THEN /\ currentLoop' = currentLoop + 1
                 /\ microtask' = [nextSpeed |-> playbackSpeeds[currentLoop' + 1]]
                 /\ out' = << >>
            ELSE /\ currentLoop' = currentLoop
                 /\ microtask' = NoTask
                 /\ out' = << << "trackEnd" >> >>]_vars
    /\ [][RestartMicrotask =>
            /\ SubSeq(out', 1, 4) = RestartCommands(microtask.nextSpeed)
            /\ playbackRate' = microtask.nextSpeed
            /\ ~paused']_vars

\* C1 witness: with N = 3 the third pass has ended and track-end is signalled
C1_Witness ==
    loopCount = 3 /\ currentLoop = 2 /\ out = << << "trackEnd" >> >>

\* C2: with loopCount fixed, currentLoop never exceeds loopCount - 1 while
\* isLoopLocked is false, whatever finish events arrive (duplicates included).
C2_LoopBound == ~isLoopLocked => currentLoop <= loopCount - 1

\* the track a render shows as current
TrackOf(r) == idAt(r.playlist, r.currentTrackIndex)

SessionReset ==
    currentLoop = 0 /\ regionLoop = 0 /\ ~isLoopLocked /\ activeRegion = None

\* C3: whenever Player comes to show another track as current (by select,
\* next, previous, track-end, removal of the current track or a loaded
\* playlist), the session is reset: currentLoop = 0, regionLoop = 0,
\* isLoopLocked = FALSE, activeRegion = None.
C3_TrackChangeResets ==
    [][(TrackOf(rendered') # TrackOf(rendered) /\ TrackOf(rendered') # None)
            => SessionReset']_vars

\* a restart sequence is in flight: its microtask is queued, or the play() it
\* issued (or the fallback play()) has not settled
RestartInFlight == microtask # NoTask \/ conts # {}

\* C4: a finish that arrives while a restart is still in flight is ignored
\* (currentLoop unchanged, no restart queued, no track-end); the finish
\* delivered again for a completion that was already counted does not
\* increment currentLoop again; no restart is queued while the play() of an
\* earlier one has not settled.
C4_LatchSuppresses ==
    /\ [][(DuplicateFinish /\ RestartInFlight) =>
            (currentLoop' = currentLoop /\ microtask' = microtask
                /\ out' = << >>)]_vars
    /\ [][(DuplicateFinish /\ dup.counted) => currentLoop' = currentLoop]_vars
    /\ [](microtask # NoTask => conts = {})

\* nothing is left to run: no render, microtask, load, play() or timer pending
Quiescent ==
    /\ Settled /\ Mounted /\ loadPending = None
    /\ ~playPending /\ ~readyPending /\ conts = {} /\ timers = {}

\* C5: no stuck playback: once everything a finish set off has settled and the
\* user still wants playback (isPlaying), the transport is not left paused;
\* also with a single-track playlist.
C5_NoStuckPlayback == (isPlaying /\ Quiescent) => ~paused

\* C6: a finish that originated from a track that is no longer the current
\* one is discarded: currentLoop unchanged, no restart queued, no track-end.
C6_StaleFinishDiscarded ==
    [][(DuplicateFinish /\ dup.track # idAt(playlist, currentTrackIndex)) =>
            (currentLoop' = currentLoop /\ microtask' = NoTask
                /\ currentTrackIndex' = currentTrackIndex
                /\ out' = << >>)]_vars

C9_SingleActiveRegion ==
    /\ [][RegionCreated =>
            (Cardinality(regions') = 1 /\ regions' \cap regions = {}
                /\ activeRegion' \in regions' /\ regionLoop' = 0)]_vars
    /\ [](regions # {} => activeRegion \in regions)

\* C9 witness: region 2 has replaced region 1, which the handlers' snapshot
\* still shows
C9_Witness ==
    regions = {2} /\ activeRegion = 2 /\ stateRef.activeRegion = 1

\* the resume that region-created scheduled has not run yet
ResumePending == \E t \in timers : t.kind = "created"

\* C10: the transport state at the start of the drag is recorded; a region
\* created by a drag that started while playing schedules a resume, and the
\* scheduled resume leads to a transport that is not paused.
C10_ResumesAfterCreate ==
    /\ [][BeginRegionDrag => wasPlayingBeforeRegion' = ~paused]_vars
    /\ [][(RegionCreated /\ wasPlayingBeforeRegion) => ResumePending']_vars
    /\ (ResumePending ~> ~paused)

\* C10 witness: the drag had paused the transport and the scheduled resume
\* has issued play for the new region
C10_Witness ==
    /\ out = << << "resume" >>, << "play" >> >>
    /\ ~paused /\ activeRegion # None

\* the rate of the pass the session is in
SessionRate == SpeedAt(playbackSpeeds, Min(currentLoop, loopCount - 1))

\* a finish, first or repeated delivery, that passes the guard of a locked
\* track with no region
LockedFinishAccepted ==
    /\ Finish \/ DuplicateFinish
    /\ ~isHandlingFinishRef /\ isLoopLocked /\ activeRegion = None

\* C11: while the track is locked and no region is active, every accepted
\* finish leaves currentLoop unchanged, queues a restart at the rate the pass
\* was played at and signals no track-end, whatever loopCount is; the restart
\* is then issued at that rate.
C11_LockedRepeats ==
    /\ [][LockedFinishAccepted =>
            (currentLoop' = currentLoop
                /\ microtask' = [nextSpeed |-> playbackRate]
                /\ playbackRate = SessionRate
                /\ currentTrackIndex' = currentTrackIndex
                /\ out' = << >>)]_vars
    /\ [][(RestartMicrotask /\ isLoopLocked) =>
            (SubSeq(out', 1, 4) = RestartCommands(playbackRate)
                /\ playbackRate' = playbackRate
                /\ currentLoop' = currentLoop /\ ~paused')]_vars

\* C11 witness: the last pass of loopCount = 2 has ended on a locked track
\* and a restart at its rate is queued
C11_Witness ==
    /\ isLoopLocked /\ loopCount = 2 /\ currentLoop = 1
    /\ isHandlingFinishRef /\ microtask = [nextSpeed |-> 11]

\* no id occurs twice in the sequence h
NoRepeat(h) == \A i, j \in DOMAIN h : i # j => h[i] # h[j]

\* the ids a record call can be given: those of the tracks of the playlist
RecordableIds == {playlist[k].id : k \in DOMAIN playlist}

\* C12: the history holds at most 50 ids and no id twice; recording an id puts
\* it first, keeps the other ids in their order and drops what exceeds 50;
\* select records the selected track, next and previous the track they leave.
C12_HistoryBounded ==
    /\ [](Len(recentHistory) <= HistoryCap /\ NoRepeat(recentHistory))
    /\ [](\A id \in RecordableIds :
            LET h == addToHistory(recentHistory, id)
                rest == SelectSeq(recentHistory, LAMBDA x : x # id)
            IN  /\ Len(h) = Min(Len(rest) + 1, HistoryCap)
                /\ h[1] = id
                /\ \A i \in 2 .. Len(h) : h[i] = rest[i - 1])
    /\ [][TrackSelect =>
            recentHistory' =
                addToHistory(recentHistory, idAt(playlist', currentTrackIndex'))]_vars
    /\ [][((NextTrack \/ PreviousTrack) /\ playlist # << >>) =>
            recentHistory' =
                addToHistory(recentHistory, idAt(playlist, currentTrackIndex))]_vars

\* C12 witness: track 1 was recorded on a full history, whose oldest id was
\* dropped
C12_Witness ==
    /\ Len(recentHistory) = HistoryCap
    /\ recentHistory[1] = 1
    /\ recentHistory[HistoryCap] = HistoryCap + HistoryCap - 1

\* the current track, and the ids pickNextWeightedTrack can be told to exclude
CurrentId == idAt(playlist, currentTrackIndex)
ExcludableIds == RecordableIds \cup {None}

\* C13: on a playlist of 2 tracks or more the pick is, for every draw, the
\* index of a track of the playlist other than the excluded one; on a playlist
\* of 0 or 1 tracks it is 0.  A shuffled next moves to such a track.
C13_PickValid ==
    /\ [](\A ex \in ExcludableIds : \A r \in Draws(playlist, ex) :
            LET k == pickNextWeightedTrack(playlist, ex, r) IN
            IF Len(playlist) >= 2
            THEN k \in 0 .. Len(playlist) - 1 /\ idAt(playlist, k) # ex
            ELSE k = 0)
    /\ [][(NextTrack /\ isShuffleOn /\ Len(playlist) >= 2) =>
            (currentTrackIndex' \in 0 .. Len(playlist) - 1
                /\ idAt(playlist, currentTrackIndex') # CurrentId)]_vars
    /\ [][(NextTrack /\ isShuffleOn /\ Len(playlist) <= 1) =>
            currentTrackIndex' = 0]_vars

\* C13 witness: a shuffled next has left track 1 of three tracks for track 3
C13_Witness ==
    /\ Len(playlist) = 3 /\ isShuffleOn
    /\ recentHistory = << 1 >> /\ currentTrackIndex = 2

\* the weights as the specification gives them
WeightOf(p) == IF p = 3 THEN 9 ELSE IF p = 1 THEN 1 ELSE 3

RECURSIVE Cumulative(_, _)
Cumulative(c, i) ==
    IF i = 0 THEN 0 ELSE Cumulative(c, i - 1) + WeightOf(c[i].priority)

\* the place, among the candidates c, of the first one whose cumulative
\* weight reaches the draw r (r in units of 1/DrawScale)
FirstReached(c, r) ==
    CHOOSE i \in DOMAIN c :
        /\ r <= DrawScale * Cumulative(c, i)
        /\ \A j \in 1 .. i - 1 : r > DrawScale * Cumulative(c, j)

NoTrack == [id |-> None, priority |-> None]

\* C14: among the candidates in playlist order, weighted 9, 3, 1 (3 for any
\* other priority), the loop selects the first whose cumulative weight reaches
\* the draw, for every draw below the total; it never falls through to the
\* default.  With [A:3, B:2, C:1], current A and r = 2.5, B is selected.
C14_PickFirstReached ==
    /\ [](\A ex \in ExcludableIds :
            LET c == withoutId(playlist, ex) IN
            \A r \in Draws(playlist, ex) :
                c # << >> =>
                    /\ selectFrom(c, r, NoTrack) # NoTrack
                    /\ selectFrom(c, r, NoTrack) = c[FirstReached(c, r)]
                    /\ Len(playlist) >= 2 =>
                          pickNextWeightedTrack(playlist, ex, r) =
                              findIndex(playlist, c[FirstReached(c, r)].id))
    /\ []((Len(playlist) = 3 /\ playlist[1].priority = 3
                /\ playlist[2].priority = 2 /\ playlist[3].priority = 1) =>
            pickNextWeightedTrack(playlist, playlist[1].id,
                                  (5 * DrawScale) \div 2) = 1)

\* C14 witness: with [A:3, B:2, C:1] a shuffled next has left A for B
C14_Witness ==
    /\ Len(playlist) = 3 /\ playlist[1].priority = 3
    /\ playlist[2].priority = 2 /\ playlist[3].priority = 1
    /\ recentHistory = << 1 >> /\ currentTrackIndex = 1

\* the cells of width 1/DrawScale that make up [0, total): the draws in the
\* open cell (k, k+1) select what the draw k+1 selects, the thresholds of the
\* loop being whole numbers of cells
Cells(c) == 0 .. DrawScale * Cumulative(c, Len(c)) - 1

\* C15: of the equally likely cells of [0, total), the share that selects a
\* candidate is its weight over the total: 9 : 3 : 1 for HIGH : MED : LOW.
C15_PickProportional ==
    [](\A ex \in ExcludableIds :
        LET c == withoutId(playlist, ex) IN
        \A i \in DOMAIN c :
            Cardinality({k \in Cells(c) : selectFrom(c, k + 1, NoTrack) = c[i]})
                = DrawScale * WeightOf(c[i].priority))

\* C15 witness: a shuffled next among a HIGH, a MED and a LOW candidate has
\* taken the LOW one
C15_Witness ==
    /\ Len(playlist) = 3 /\ playlist[2].priority = 3
    /\ playlist[3].priority = 1
    /\ recentHistory = << 1 >> /\ currentTrackIndex = 2

\* a step that removes the current track from the playlist
RemovesCurrent ==
    /\ CurrentId # None
    /\ Len(playlist') < Len(playlist)
    /\ ~hasId(playlist', CurrentId)

\* C16: removing the current track sets currentTrackIndex to
\* min(previousIndex, remainingLength - 1) when tracks remain and to 0 when
\* none does, so that the index designates a track of a non-empty playlist.
C16_RemoveCurrentClamps ==
    /\ [][RemovesCurrent =>
            /\ playlist' = withoutId(playlist, CurrentId)
            /\ currentTrackIndex' =
                  IF Len(playlist') = 0 THEN 0
                  ELSE Min(currentTrackIndex, Len(playlist') - 1)
            /\ playlist' # << >> => idAt(playlist', currentTrackIndex') # None]_vars
    /\ [](\A prevIndex \in 0 .. Len(playlist) - 1 :
            LET id == idAt(playlist, prevIndex)
                newPlaylist == withoutId(playlist, id)
                index == indexAfterRemove(newPlaylist, prevIndex, id, id)
            IN  /\ index = IF newPlaylist = << >> THEN 0
                           ELSE Min(prevIndex, Len(newPlaylist) - 1)
                /\ newPlaylist # << >> => idAt(newPlaylist, index) # None)

\* C16 witness: track 3, the last of three and the current one, has been
\* removed; two tracks remain and the index is clamped to the last of them
C16_Witness ==
    /\ Len(playlist) = 2 /\ ~hasId(playlist, 3)
    /\ recentHistory = << 3 >> /\ currentTrackIndex = 1

\* the places of the history h whose id differs from cur and is in pl
PreviousCandidates(h, pl, cur) ==
    {i \in DOMAIN h : h[i] # cur /\ hasId(pl, h[i])}

SetMin(S) == CHOOSE x \in S : \A y \in S : x <= y

\* C17: previous moves to the first id of the history (most recent first) that
\* differs from the current id and is still in the playlist, and to the index
\* (currentIndex - 1 + n) mod n when there is none; it never moves to a track
\* that is no longer in the playlist.
C17_PreviousFromHistory ==
    /\ [](\A cur \in ExcludableIds :
            LET c == PreviousCandidates(recentHistory, playlist, cur) IN
            findPrevious(recentHistory, playlist, cur) =
                IF c = {} THEN None ELSE recentHistory[SetMin(c)])
    /\ [][(PreviousTrack /\ playlist # << >>) =>
            LET c == PreviousCandidates(recentHistory, playlist, CurrentId)
                n == Len(playlist)
            IN  /\ playlist' = playlist
                /\ idAt(playlist, currentTrackIndex') # None
                /\ IF c # {}
                   THEN idAt(playlist, currentTrackIndex') = recentHistory[SetMin(c)]
                   ELSE currentTrackIndex' = (currentTrackIndex - 1 + n) % n]_vars

\* C17 witness: from track 3, with track 2 removed and the history 3, 2, 1,
\* previous has skipped the removed track 2 and moved to track 1
C17_Witness ==
    /\ Len(playlist) = 2 /\ playlist[1].id = 1 /\ playlist[2].id = 3
    /\ recentHistory = << 3, 2, 1 >> /\ currentTrackIndex = 0

InHistory(t) == \E k \in DOMAIN recentHistory : recentHistory[k] = t.id

\* the place of the track t in the history, most recent first
RankOf(t) == CHOOSE k \in DOMAIN recentHistory : recentHistory[k] = t.id

\* C18: the list sorted by recency is a permutation of the playlist; the
\* tracks of the history come first, in ascending history index, and the
\* tracks out of the history come after all of them, in playlist order.
C18_SortByRecency ==
    LET s == sortedPlaylist(playlist, "recent", recentHistory) IN
    /\ Len(s) = Len(playlist)
    /\ \A k \in DOMAIN playlist : \E i \in DOMAIN s : s[i] = playlist[k]
    /\ \A i, j \in DOMAIN s :
          i < j =>
            /\ InHistory(s[j]) => InHistory(s[i]) /\ RankOf(s[i]) < RankOf(s[j])
            /\ ~InHistory(s[i]) =>
                  findIndex(playlist, s[i].id) < findIndex(playlist, s[j].id)
    /\ (sortOrder = "recent" /\ Settled) => rendered.sortedPlaylist = s

\* C18 witness: the list is shown by recency with track 3 then track 2 in the
\* history, track 1 out of it: the list shown is 3, 2, 1
C18_Witness ==
    /\ sortOrder = "recent" /\ recentHistory = << 3, 2 >>
    /\ Len(playlist) = 3 /\ Settled
    /\ rendered.sortedPlaylist[1].id = 3 /\ rendered.sortedPlaylist[3].id = 1

\* C19: the tick that finds a duration of 1 or less sets isPlaying to false
\* and the duration to 0; the interval fires only while a timer is running,
\* and the duration and isPlaying leave 0 and false only by Start Timer.
C19_SleepExpiresOnce ==
    /\ [][(SleepTick /\ sleepTimerDuration <= 1) =>
            (~appIsPlaying' /\ sleepTimerDuration' = 0)]_vars
    /\ [][SleepTick => (appIsPlaying /\ sleepTimerDuration > 0)]_vars
    /\ [][(sleepTimerDuration = 0 /\ sleepTimerDuration' # 0) => StartTimer]_vars
    /\ [][(~appIsPlaying /\ appIsPlaying') => StartTimer]_vars

\* C19 witness: the timer has just expired; the render that armed the
\* interval still shows one second left
C19_Witness ==
    /\ sleepTimerDuration = 0 /\ ~appIsPlaying
    /\ rendered.appIsPlaying /\ rendered.sleepTimerDuration = 1

\* the step that renders the expiry of the sleep timer
RendersExpiry ==
    /\ Commit
    /\ rendered.appIsPlaying /\ rendered.sleepTimerDuration > 0
    /\ ~appIsPlaying /\ sleepTimerDuration = 0

\* C20: once the expiry of the sleep timer is rendered the transport is
\* paused, no play() is pending and no pass restart is queued or settling.
C20_SleepPausesTransport ==
    [][RendersExpiry =>
        (paused' /\ ~playPending' /\ conts' = {} /\ microtask' = NoTask)]_vars

\* C21: whenever the track is not locked, currentLoop lies between 0 and
\* loopCount - 1, under any interleaving of finishes, loop-lock toggles,
\* changes of loopCount and track changes.
C21_PassIndexInRange ==
    ~isLoopLocked => (0 <= currentLoop /\ currentLoop <= loopCount - 1)

\* a finish that passes the guard and finds, in the snapshot it reads, no
\* region, no lock and the pass budget used up
ExhaustedFinish ==
    /\ Finish \/ DuplicateFinish
    /\ ~isHandlingFinishRef /\ stateRef.activeRegion = None
    /\ ~stateRef.isLoopLocked
    /\ stateRef.currentLoop >= stateRef.loopCount - 1

IndexChangeRendered ==
    rendered'.currentTrackIndex # rendered.currentTrackIndex

C23_TrackEndOnce ==
    [][(DuplicateFinish /\ dup.ended) =>
        (out' = << >> /\ currentTrackIndex' = currentTrackIndex
            /\ recentHistory' = recentHistory)]_vars

\* C24: the restart latch is released only by a track change or by the
\* settling of the restart sequence that holds it: a release that is not a
\* track change leaves no restart queued and no play() of a restart unsettled.
C24_LatchReleasedBySettle ==
    [][(isHandlingFinishRef /\ ~isHandlingFinishRef') =>
        (IndexChangeRendered \/ ~RestartInFlight')]_vars

\* the rate of pass index i: its entry in the speed list, 1.0 outside the list
RateOfPass(i) ==
    IF i >= 0 /\ i < Len(playbackSpeeds) THEN playbackSpeeds[i + 1]
    ELSE DefaultRate

\* a finish that queues a restart
ContinuingFinish ==
    /\ Finish \/ DuplicateFinish
    /\ microtask = NoTask /\ microtask' # NoTask

\* the last unsettled play() of a restart sequence settles
RestartSettles == conts # {} /\ conts' = {} /\ microtask' = NoTask

\* C25: a continuing finish queues the restart at the rate of pass
\* min(nextPassIndex, loopCount - 1), nextPassIndex being currentLoop when
\* locked and currentLoop + 1 otherwise, 1.0 when there is no such entry;
\* when the restart has settled the transport rate is the rate of the
\* session's currentLoop.
C25_RestartRate ==
    /\ [][ContinuingFinish =>
            microtask'.nextSpeed =
                RateOfPass(Min(IF isLoopLocked THEN currentLoop
                                               ELSE currentLoop + 1,
                               loopCount - 1))]_vars
    /\ [][(RestartMicrotask) => playbackRate' = microtask.nextSpeed]_vars
    /\ [][(RestartSettles /\ ~readyPending') =>
            playbackRate' = RateOfPass(Min(currentLoop', loopCount' - 1))]_vars

\* a finish delivered while the session has an active region
RegionFinish == (Finish \/ DuplicateFinish) /\ activeRegion # None

\* C26: a finish handled while a region is active changes nothing:
\* currentLoop and isLoopLocked are unchanged, no restart is queued and no
\* command issued, no track-end is signalled, and the latch is not set.
C26_RegionFinishIgnored ==
    [][RegionFinish =>
        (UNCHANGED << currentLoop, isLoopLocked, microtask,
                      isHandlingFinishRef, currentTrackIndex, recentHistory >>
            /\ out' = << >>)]_vars


\* C27: a regionOut signal is ignored (it counts no crossing and schedules no
\* re-seek) whenever the previous regionOut signal for that region, acted on
\* or ignored, arrived less than 100 ms before it.
C27_CloseSignalIgnored ==
    [][(RegionOut /\ lastSignal # NoSignal /\ now - lastSignal < DebounceMs) =>
            UNCHANGED << regionLoop, timers >>]_vars


\* a regionOut that passes the debounce and finds a region in the snapshot
RegionOutActed ==
    /\ RegionOut
    /\ now - lastRegionOutTimeRef >= DebounceMs
    /\ stateRef.activeRegion # None

\* the re-seek t runs and still finds a region in the snapshot
ReseekRuns(t) ==
    /\ TimerFire
    /\ t \in timers \ timers' /\ t.kind = "regionOut"
    /\ stateRef.activeRegion # None

\* C28: a regionOut that is not debounced and finds the region still active
\* increments regionLoop by exactly 1 and schedules the re-seek, which seeks
\* to the start of the region and issues play if the transport is paused;
\* neither changes currentLoop or the playback rate.
C28_DrillCrossing ==
    /\ [][RegionOutActed =>
            (regionLoop' = regionLoop + 1
                /\ (\E t \in timers' : t.kind = "regionOut" /\ ~t.cleared
                                           /\ t.region \in regions)
                /\ out' = << >>
                /\ UNCHANGED << currentLoop, playbackRate, paused,
                                playPending >>)]_vars
    /\ [][\A t \in timers :
            ReseekRuns(t) =>
                (out' = (IF paused THEN << << "seek", t.region >>, << "play" >> >>
                                   ELSE << << "seek", t.region >> >>)
                    /\ ~paused'
                    /\ UNCHANGED << currentLoop, playbackRate,
                                    regionLoop >>)]_vars

\* C28 witness: the crossing was counted, the transport was paused when the
\* re-seek ran, and the re-seek sought to the region and issued play
C28_Witness ==
    /\ regionLoop = 1 /\ activeRegion = 1 /\ timers = {}
    /\ out = << << "seek", 1 >>, << "play" >> >>
    /\ ~paused


\* the count of crossings while regions are created, replaced and cleared
\* and the user selects another track
NextCount ==
    \/ LoadTracksDone \/ Commit \/ PlayStarted \/ Ready \/ PlayPause
    \/ BeginRegionDrag \/ RegionCreated \/ ClearRegion
    \/ RegionOut \/ TrackSelect

SpecCount == InitDefault /\ [][NextCount]_vars

\* C29: in every reachable state activeRegion = None implies regionLoop = 0.
C29_NoRegionNoCount == activeRegion = None => regionLoop = 0


\* C29 witness: a crossing was counted, then the region was cleared; no
\* region and no count are left
C29_Witness ==
    /\ activeRegion = None /\ regionLoop = 0 /\ regions = {}
    /\ \E t \in timers : t.kind = "regionOut" /\ t.cleared


\* the crossings of a region and their re-seeks while the user selects or
\* removes tracks
NextSwitch ==
    \/ LoadTracksDone \/ Commit \/ PlayStarted \/ Ready \/ PlayPause
    \/ BeginRegionDrag \/ RegionCreated
    \/ RegionOut \/ TimerFire
    \/ TrackSelect \/ RemoveTrack

SpecSwitch == InitDefault /\ [][NextSwitch]_vars

\* the re-seek t runs when the track it was scheduled on is no longer current
OvertakenReseekRuns(t) ==
    /\ TimerFire
    /\ t \in timers \ timers' /\ t.kind = "regionOut"
    /\ t.track # idAt(playlist, currentTrackIndex)

\* C30: a re-seek scheduled by a regionOut before a track change issues no
\* seek and no play once the current track has changed.
C30_NoReseekAfterTrackChange ==
    [][\A t \in timers :
          OvertakenReseekRuns(t) =>
              (out' = << << "regionCleared" >> >>
                  /\ UNCHANGED << paused, playPending >>)]_vars


\* finish runs past its guard: it reads activeRegion, isLoopLocked,
\* currentLoop, loopCount and playbackSpeeds from the snapshot
FinishReads == (Finish \/ DuplicateFinish) /\ ~isHandlingFinishRef

FinishSnapshotCurrent ==
    /\ stateRef.activeRegion = activeRegion
    /\ stateRef.isLoopLocked = isLoopLocked
    /\ stateRef.currentLoop = currentLoop
    /\ stateRef.loopCount = loopCount
    /\ stateRef.playbackSpeeds = playbackSpeeds

\* ready reads currentLoop, loopCount, playbackSpeeds and isPlaying
ReadySnapshotCurrent ==
    /\ stateRef.currentLoop = currentLoop
    /\ stateRef.loopCount = loopCount
    /\ stateRef.playbackSpeeds = playbackSpeeds
    /\ stateRef.isPlaying = isPlaying

\* region-out runs past its debounce: it reads activeRegion
RegionOutReads == RegionOut /\ now - lastRegionOutTimeRef >= DebounceMs

\* C31: whenever finish, ready or region-out runs, the values it reads for
\* currentLoop, isLoopLocked, loopCount, playbackSpeeds, activeRegion and
\* isPlaying are the current ones, a change made by the step just before
\* included.
C31_HandlersReadCurrent ==
    /\ [][FinishReads => FinishSnapshotCurrent]_vars
    /\ [][Ready => ReadySnapshotCurrent]_vars
    /\ [][RegionOutReads => stateRef.activeRegion = activeRegion]_vars


\* C32: on ready the rate is set to playbackSpeeds[min(currentLoop,
\* loopCount-1)] (1.0 when absent) for the current pass index of the session,
\* pass 0 after a track change, and play is issued exactly when isPlaying is
\* true.
C32_ReadyAppliesRate ==
    [][Ready =>
          (playbackRate' = RateOfPass(Min(currentLoop, loopCount - 1))
              /\ out' = (IF isPlaying THEN << << "play" >> >> ELSE << >>))]_vars


\* the latest step logged a rejected play() with console.error
ErrorLogged == \E i \in 1 .. Len(out) : out[i][1] = "error"

\* C33: a play() rejected because a pause, seek or load cancelled it
\* (AbortError, the only rejection there is here) is never logged as an error
\* by any handler.
C33_AbortNotLogged == ~ErrorLogged


\* switching between the playlists while their loads resolve in any order,
\* with a track selected and App's isPlaying set in between
NextLibrary ==
    \/ LoadTracksDone \/ LoadTracksStale \/ SelectPlaylist
    \/ Commit \/ Ready \/ TrackSelect \/ StartTimer

SpecLibrary == InitDefault /\ [][NextLibrary]_vars

\* no loadTracks request is outstanding
LoadsSettled == loadPending = None /\ staleLoads = {}

NextHandles ==
    \/ LoadTracksDone \/ LoadTracksStale \/ SelectPlaylist
    \/ Commit \/ Ready \/ TrackSelect \/ RemoveTrack

SpecHandles == InitDefault /\ [][NextHandles]_vars

\* C35: every object URL created for a track is released exactly once, when
\* the track is removed or its playlist is replaced: none is revoked twice,
\* and one whose track is no longer in the playlist has been revoked.
C35_ReleasedOnce ==
    \A u \in urls :
        /\ u.revoked <= 1
        /\ u.id \notin IdsOf(playlist) => u.revoked = 1


\* C36: when the user has paused (isPlaying is false) and everything that was
\* scheduled or pending has run, a restart or its fallback play() included,
\* the transport is paused.
C36_PauseWins == (~isPlaying /\ Quiescent) => paused


\* a track other than the current one is removed
RemovesOther ==
    /\ RemoveTrack
    /\ CurrentId # None
    /\ Len(playlist') < Len(playlist)
    /\ hasId(playlist', CurrentId)

\* C37: removing a track other than the current one leaves the current track
\* and its session as they are: the same track is at currentTrackIndex, and
\* currentLoop, isLoopLocked, activeRegion and regionLoop keep their values,
\* also when the index of the current track shifts.
C37_RemoveOtherKeepsSession ==
    [][RemovesOther =>
          (idAt(playlist', currentTrackIndex') = CurrentId
              /\ UNCHANGED << currentLoop, isLoopLocked, activeRegion,
                              regionLoop >>)]_vars


\* the tracks ending while the user switches playlists and selects tracks
NextIndex ==
    \/ LoadTracksDone \/ LoadTracksStale \/ SelectPlaylist
    \/ Commit \/ Ready \/ PlayPause \/ PlayStarted
    \/ Finish \/ DuplicateFinish
    \/ TrackSelect

\* loopCount 1: every pass that ends is the last one of its track
SpecIndex == InitFrom(InitWorld(1)) /\ [][NextIndex]_vars

\* C38: in every reachable state currentTrackIndex is 0 when the playlist is
\* empty and otherwise 0 <= currentTrackIndex < len(playlist).
C38_IndexInRange ==
    IF playlist = << >> THEN currentTrackIndex = 0
    ELSE 0 <= currentTrackIndex /\ currentTrackIndex < Len(playlist)


\* the list of playlists: creating, switching and deleting, the storage calls
\* resolving in any order
NextPlaylists ==
    \/ LoadTracksDone \/ LoadTracksStale \/ Commit \/ Ready
    \/ SelectPlaylist
    \/ CreatePlaylist \/ CreatePlaylistDone
    \/ DeletePlaylist \/ DeletePlaylistDone

SpecPlaylists == InitDefault /\ [][NextPlaylists]_vars

\* C39: in every reachable state there is at least one playlist and
\* currentPlaylistId is the id of an existing playlist.
C39_CurrentPlaylistExists ==
    playlists # << >> /\ currentPlaylistId \in SeqRange(playlists)


\* adding files while playlists are switched
NextAdds ==
    \/ LoadTracksDone \/ LoadTracksStale \/ Commit \/ Ready
    \/ SelectPlaylist \/ TrackSelect
    \/ AddFiles \/ AddFilesDone

SpecAdds == InitDefault /\ [][NextAdds]_vars

\* C40: once the loads and the batch adds have completed, every track of the
\* playlist in memory belongs to the selected playlist: a batch started for
\* another playlist has not appended its tracks.
C40_OnlyTracksOfCurrent ==
    (LoadsSettled /\ pendingAdds = {})
        => IdsOf(playlist) \subseteq IdsOf(db[currentPlaylistId])

====
